---- MODULE Spec2Model ----
(***************************************************************************)
(* Verification model of the email trust checker:                          *)
(*   - the address verification handler (pages/api/email/verify.ts and its *)
(*     second copy kept in pages/api/tools/ping.ts), with its result cache, *)
(*     the domain lookups and the mailbox provider;                         *)
(*   - the message inspection handler and scoreVerdict                      *)
(*     (pages/api/email/inspect.ts);                                        *)
(*   - withTimeout, the race of an operation against a timer;               *)
(*   - rateLimit, the request counter of the advice endpoint                *)
(*     (pages/api/bot/advice.ts).                                           *)
(* Strings that the code takes apart (addresses, domains, text) are         *)
(* sequences of one-character strings; other strings are TLA+ strings.      *)
(***************************************************************************)
EXTENDS Integers, Sequences, FiniteSets, TLC

VARIABLES
    impl,       \* which copy of the verify handler serves: "verify" or "ping"
    verifalia,  \* TRUE iff the provider client was constructed (credentials set)
    world,      \* what the upstreams hold for the domain under test (prof) and
                \* how each upstream call ends (wx)
    now,        \* Date.now(), in ms
    cache,      \* the module-level Map: key -> NoEntry or [ts, data]
    pc,         \* position of the verify request in flight
    rq,         \* locals of the verify request in flight
    resp,       \* the last response written (status and body), or NoResp
    nreq,       \* verify requests received so far
    sc,         \* scoreVerdict: the input drawn and the result computed
    ins,        \* inspect handler: request in flight and its response
    wt,         \* withTimeout: the race between operation and timer
    rl          \* rateLimit: the bucket of the advice endpoint and its clock

vars == <<impl, verifalia, world, now, cache, pc, rq, resp, nreq, sc, ins, wt, rl>>

verifyVars == <<impl, verifalia, world, now, cache, pc, rq, resp, nreq>>

(***************************************************************************)
(* Bounds of the model.                                                     *)
(***************************************************************************)
MaxReq == 2
MaxSlack == 0
MaxLinks == 2
MaxDnsMissing == 1

(***************************************************************************)
(* Character-sequence helpers.                                              *)
(***************************************************************************)
Range(s) == {s[i] : i \in 1..Len(s)}

\* String.prototype.toLowerCase over the alphabet the inputs use
LowerChar(c) ==
    CASE c = "A" -> "a" [] c = "B" -> "b" [] c = "C" -> "c" [] c = "D" -> "d"
      [] c = "E" -> "e" [] c = "F" -> "f" [] c = "G" -> "g" [] c = "H" -> "h"
      [] c = "I" -> "i" [] c = "J" -> "j" [] c = "K" -> "k" [] c = "L" -> "l"
      [] c = "M" -> "m" [] c = "N" -> "n" [] c = "O" -> "o" [] c = "P" -> "p"
      [] c = "Q" -> "q" [] c = "R" -> "r" [] c = "S" -> "s" [] c = "T" -> "t"
      [] c = "U" -> "u" [] c = "V" -> "v" [] c = "W" -> "w" [] c = "X" -> "x"
      [] c = "Y" -> "y" [] c = "Z" -> "z"
      [] OTHER -> c

ToLowerCase(s) == [i \in 1..Len(s) |-> LowerChar(s[i])]

RECURSIVE TrimStart(_)
TrimStart(s) == IF s # <<>> /\ Head(s) = " " THEN TrimStart(Tail(s)) ELSE s

RECURSIVE TrimEnd(_)
TrimEnd(s) ==
    IF s # <<>> /\ s[Len(s)] = " " THEN TrimEnd(SubSeq(s, 1, Len(s) - 1)) ELSE s

Trim(s) == TrimEnd(TrimStart(s))

\* String.prototype.split(sep) for a one-character separator
RECURSIVE SplitAcc(_, _, _)
SplitAcc(s, sep, cur) ==
    IF s = <<>> THEN <<cur>>
    ELSE IF Head(s) = sep THEN <<cur>> \o SplitAcc(Tail(s), sep, <<>>)
    ELSE SplitAcc(Tail(s), sep, Append(cur, Head(s)))

Split(s, sep) == SplitAcc(s, sep, <<>>)

\* Array.prototype.join(sep)
RECURSIVE Join(_, _)
Join(parts, sep) ==
    IF parts = <<>> THEN <<>>
    ELSE IF Len(parts) = 1 THEN parts[1]
    ELSE parts[1] \o <<sep>> \o Join(Tail(parts), sep)

Letters == {"a", "b", "c", "d", "e", "f", "g", "h", "i", "j", "k", "l", "m", "n",
            "o", "p", "q", "r", "s", "t", "u", "v", "w", "x", "y", "z"}
Digits == {"0", "1", "2", "3", "4", "5", "6", "7", "8", "9"}

(***************************************************************************)
(* Address format: validator.isEmail(email, {allow_utf8_local_part: false}) *)
(* over the unquoted local parts the inputs use: the address is split at    *)
(* "@", the last part is the domain and must be a fully qualified domain    *)
(* name whose top-level label has two letters or more; the rest is the user *)
(* part, non-empty and made of atom characters.                             *)
(***************************************************************************)
LabelOK(l) ==
    /\ l # <<>>
    /\ Range(l) \subseteq (Letters \cup Digits \cup {"-"})
    /\ l[1] # "-"
    /\ l[Len(l)] # "-"

isFQDN(d) ==
    LET parts == Split(d, ".") IN
    /\ Len(parts) >= 2
    /\ Len(parts[Len(parts)]) >= 2
    /\ Range(parts[Len(parts)]) \subseteq Letters
    /\ \A i \in 1..Len(parts) : LabelOK(parts[i])

isEmail(s) ==
    LET parts == Split(s, "@")
        n == Len(parts)
        user == Join(SubSeq(parts, 1, n - 1), "@")
    IN  /\ n >= 2
        /\ isFQDN(parts[n])
        /\ user # <<>>
        /\ Range(user) \subseteq (Letters \cup Digits \cup {".", "-", "_", "+"})
        /\ user[1] # "."
        /\ user[Len(user)] # "."

\* email.split("@")[1], "" when the format is not valid
DomainOf(email, formatOK) == IF formatOK THEN Split(email, "@")[2] ELSE <<>>

\* String(req.query.email || "").trim().toLowerCase()
Normalize(raw) == ToLowerCase(Trim(raw))

(***************************************************************************)
(* Requests the model sends to the verify handler.                          *)
(***************************************************************************)
Raw ==
    [plain |-> <<"u", "@", "a", ".", "c", "o">>,
     padded |-> <<" ", "U", "@", "A", ".", "C", "O", " ">>,
     noDomain |-> <<"u", "@">>]

(***************************************************************************)
(* Cache constants of verify.ts.                                            *)
(***************************************************************************)
TTL_MS == 6 * 60 * 60 * 1000

\* the instants the clock visits: the start, the last instant inside one
\* TTL, the TTL itself and MaxSlack instants after it
TimePoints == {0, TTL_MS - 1} \cup {TTL_MS + k : k \in 0..MaxSlack}

DAY_MS == 86400000

(***************************************************************************)
(* The upstream world: what DNS, the blocklist zone, RDAP and WHOIS hold    *)
(* for the domain under test.  An upstream call ends "ok", "error"          *)
(* (rejects before the deadline) or "timeout" (the timer wins).             *)
(***************************************************************************)
Null == "<null>"
DBL_ENGINE == "dbl.spamhaus.org"

Mx == <<[exchange |-> <<"m", "x", "1">>, priority |-> 10],
       [exchange |-> <<"m", "x", "2">>, priority |-> 20]>>

Dates ==
    [old |-> "2025-12-23T00:00:00Z",
     new |-> "2026-01-02T00:00:00Z",
     odd |-> "19960101 #1234"]

\* an RDAP answer: httpOk is r.ok, jsonOk is whether r.json() parses,
\* events is j.events
Rdap ==
    [none |-> [httpOk |-> FALSE, jsonOk |-> FALSE, events |-> <<>>],
     reg |-> [httpOk |-> TRUE, jsonOk |-> TRUE, events |-> << [eventAction |-> "last changed", eventDate |-> Dates.new], [eventAction |-> "registration", eventDate |-> Dates.old] >>],
     noDate |-> [httpOk |-> TRUE, jsonOk |-> TRUE, events |-> << [eventAction |-> "expiration", eventDate |-> Dates.new], [eventAction |-> "create", eventDate |-> Null] >>],
     badJson |-> [httpOk |-> TRUE, jsonOk |-> FALSE, events |-> <<>>]]

\* a WHOIS answer: the keys the code reads
Whois ==
    [none |-> [creationDate |-> Null, created |-> Null, CreationDateKey |-> Null],
     iso |-> [creationDate |-> Dates.old, created |-> Null, CreationDateKey |-> Null],
     odd |-> [creationDate |-> Null, created |-> Dates.odd, CreationDateKey |-> Null]]

Prof ==
    [good |-> [mx |-> <<Mx[2], Mx[1]>>, a |-> TRUE, listed |-> FALSE, rdap |-> Rdap.reg, whois |-> Whois.iso],
     aOnly |-> [mx |-> <<>>, a |-> TRUE, listed |-> FALSE, rdap |-> Rdap.noDate, whois |-> Whois.iso],
     dead |-> [mx |-> <<>>, a |-> FALSE, listed |-> FALSE, rdap |-> Rdap.none, whois |-> Whois.none],
     listed |-> [mx |-> <<Mx[1]>>, a |-> TRUE, listed |-> TRUE, rdap |-> Rdap.badJson, whois |-> Whois.odd]]

\* how each upstream call ends in one behaviour
Wx ==
    [allOk |-> [mx |-> "ok", a |-> "ok", dbl |-> "ok", fetch |-> "ok", whois |-> "ok"],
     dnsDown |-> [mx |-> "error", a |-> "error", dbl |-> "error", fetch |-> "ok", whois |-> "ok"],
     mxSlow |-> [mx |-> "timeout", a |-> "ok", dbl |-> "ok", fetch |-> "error", whois |-> "ok"],
     registryDown |-> [mx |-> "ok", a |-> "ok", dbl |-> "timeout", fetch |-> "timeout", whois |-> "error"]]

(***************************************************************************)
(* withTimeout(p, ms, fallback), summarised by how the race ends: the       *)
(* operation's value when it resolves first, the fallback when the timer    *)
(* fires first, and a rejection when the operation rejects first.           *)
(***************************************************************************)
withTimeout(outcome, value, fallback) ==
    CASE outcome = "ok"      -> [rejected |-> FALSE, value |-> value]
      [] outcome = "timeout" -> [rejected |-> FALSE, value |-> fallback]
      [] OTHER               -> [rejected |-> TRUE, value |-> fallback]

\* the DNS resolver rejects (ENODATA / ENOTFOUND) when there is no record
DnsOutcome(outcome, records) ==
    IF outcome = "ok" /\ records = <<>> THEN "error" ELSE outcome

\* Array.prototype.sort((a, b) => a.priority - b.priority): stable insertion
RECURSIVE InsertByPriority(_, _)
InsertByPriority(sorted, x) ==
    IF sorted = <<>> THEN <<x>>
    ELSE IF x.priority < Head(sorted).priority THEN <<x>> \o sorted
    ELSE <<Head(sorted)>> \o InsertByPriority(Tail(sorted), x)

RECURSIVE SortByPriority(_)
SortByPriority(recs) ==
    IF recs = <<>> THEN <<>>
    ELSE InsertByPriority(SortByPriority(SubSeq(recs, 1, Len(recs) - 1)),
                          recs[Len(recs)])

\* a resolver that returns the MX records in the order DNS gave them
resolveMxSafe_Unsorted(domain, w, oMx, oA) ==
    LET mx == withTimeout(DnsOutcome(oMx, w.mx), w.mx, <<>>)
        addrs == IF w.a THEN <<"192.0.2.1">> ELSE <<>>
        a == withTimeout(DnsOutcome(oA, addrs), addrs, <<>>)
    IN  IF ~mx.rejected /\ Len(mx.value) > 0 THEN mx.value
        ELSE IF ~a.rejected /\ Len(a.value) > 0
             THEN << [exchange |-> domain, priority |-> 0] >>
        ELSE <<>>

\* resolveMxSafe(domain): oMx and oA are how dns.resolveMx and dns.resolve4 end
resolveMxSafe(domain, w, oMx, oA) ==
    LET mx == withTimeout(DnsOutcome(oMx, w.mx), w.mx, <<>>)
        addrs == IF w.a THEN <<"192.0.2.1">> ELSE <<>>
        a == withTimeout(DnsOutcome(oA, addrs), addrs, <<>>)
    IN  IF ~mx.rejected /\ Len(mx.value) > 0 THEN SortByPriority(mx.value)
        ELSE IF ~a.rejected /\ Len(a.value) > 0
             THEN << [exchange |-> domain, priority |-> 0] >>
        ELSE <<>>

\* whether resolveMxSafe issues the A lookup
resolveMxSafeUsesA(w, oMx) ==
    LET mx == withTimeout(DnsOutcome(oMx, w.mx), w.mx, <<>>)
    IN  ~(~mx.rejected /\ Len(mx.value) > 0)

\* dblCheckDomain(domain): oDbl is how dns.resolve4 on the blocklist zone ends
dblCheckDomain(w, oDbl) ==
    LET addrs == IF w.listed THEN <<"127.0.1.2">> ELSE <<>>
        a == withTimeout(DnsOutcome(oDbl, addrs), addrs, <<>>)
    IN  [listed |-> ~a.rejected /\ Len(a.value) > 0, engine |-> DBL_ENGINE]

\* /registration|created|creation/i and /registration|create/i over the
\* event actions the RDAP answers use

NoEvent == [eventAction |-> Null, eventDate |-> Null]

\* ev.find((x) => re.test(x?.eventAction)), NoEvent for undefined
RECURSIVE FindEvent(_, _)
FindEvent(ev, first) ==
    IF ev = <<>> THEN NoEvent
    ELSE IF (first /\ Head(ev).eventAction \in {"registration", "created", "creation"})
            \/ (~first /\ Head(ev).eventAction \in {"registration", "create", "created"})
         THEN Head(ev)
    ELSE FindEvent(Tail(ev), first)

\* the RDAP half of rdapCreated: the event date, or Null when RDAP fails,
\* answers non-OK, cannot be read, or holds no dated registration event
rdapPart(w, oFetch) ==
    LET r == withTimeout(oFetch, w.rdap, Rdap.none)
        e1 == FindEvent(r.value.events, TRUE)
        e == IF e1 # NoEvent THEN e1 ELSE FindEvent(r.value.events, FALSE)
    IN  IF r.rejected \/ ~r.value.httpOk \/ ~r.value.jsonOk THEN Null
        ELSE e.eventDate

\* the WHOIS half of rdapCreated
whoisPart(w, oWhois) ==
    LET info == withTimeout(oWhois, w.whois, Whois.none)
        v == info.value
    IN  IF info.rejected THEN Null
        ELSE IF v.creationDate # Null THEN v.creationDate
        ELSE IF v.created # Null THEN v.created
        ELSE IF v.CreationDateKey # Null THEN v.CreationDateKey
        ELSE Null

\* a registration lookup that asks RDAP only
rdapCreated_NoFallback(w, oFetch, oWhois) == rdapPart(w, oFetch)

\* rdapCreated(domain)
rdapCreated(w, oFetch, oWhois) ==
    IF rdapPart(w, oFetch) # Null THEN rdapPart(w, oFetch) ELSE whoisPart(w, oWhois)

\* Date.parse over the date strings of the world; the model's clock starts
\* at 2026-01-12T00:00:00Z
DateParse(s) ==
    CASE s = Dates.old -> [nan |-> FALSE, ms |-> 0 - 20 * DAY_MS]
      [] s = Dates.new -> [nan |-> FALSE, ms |-> 0 - 10 * DAY_MS]
      [] OTHER       -> [nan |-> TRUE, ms |-> 0]

\* the value Math.max(0, Math.floor(NaN)) leaves in ageDays
NaNDays == -1

\* created ? Math.max(0, Math.floor((Date.now() - Date.parse(created)) / 86400000)) : 0
ageDaysOf(created, t) ==
    IF created = Null THEN 0
    ELSE IF DateParse(created).nan THEN NaNDays
    ELSE LET days == (t - DateParse(created).ms) \div DAY_MS
         IN  IF days > 0 THEN days ELSE 0

(***************************************************************************)
(* The mailbox provider's answer: job.entries[0], or no entry at all.       *)
(***************************************************************************)
ProviderEntries ==
    [present : {TRUE}, classification : {"Deliverable", "Undeliverable", "Risky"},
     isCatchAll : {FALSE}]
    \cup {[present |-> TRUE, classification |-> "Undeliverable", isCatchAll |-> TRUE],
          [present |-> FALSE, classification |-> "", isCatchAll |-> FALSE]}

ErrorMessages == {"Request timed out", ""}

\* String(x).toLowerCase() over the classification strings
LowerStr(x) ==
    CASE x = "Deliverable"   -> "deliverable"
      [] x = "Undeliverable" -> "undeliverable"
      [] x = "Risky"         -> "risky"
      [] x = "Unknown"       -> "unknown"
      [] OTHER               -> x

\* entry?.classification || ""
ClsOrEmpty(entry) == IF entry.present THEN entry.classification ELSE ""

\* entry?.classification || "Unknown"
ClsOrUnknown(entry) ==
    IF entry.present /\ entry.classification # "" THEN entry.classification
    ELSE "Unknown"

verifaliaSafe(entry) == LowerStr(ClsOrEmpty(entry)) = "deliverable"

toList(entry) ==
    LET cls == LowerStr(ClsOrEmpty(entry)) IN
    IF cls = "deliverable" THEN "whitelist"
    ELSE IF cls = "undeliverable" THEN "blacklist"
    ELSE "greylist"

Absent == "<absent>"

Notes ==
    [local |-> "Local baseline used. Could not confirm mailbox existence.",
     provider1 |-> "Validation performed via Verifalia.",
     provider2 |-> "Result reflects mailbox-level verification without sending an email."]

(***************************************************************************)
(* localBaseline(email): the object it returns, from the lookups it made.   *)
(***************************************************************************)
LocalSafeToSend(formatOK, hasMX, listed, status) ==
    formatOK /\ hasMX /\ ~listed /\ status # "undeliverable"

LocalList(formatOK, listed, safeToSend) ==
    IF ~formatOK \/ listed THEN "blacklist"
    ELSE IF safeToSend THEN "whitelist"
    ELSE "greylist"

localBaselineBody(email, mx, dbl, created) ==
    LET formatOK == isEmail(email)
        domain == DomainOf(email, formatOK)
        hasMX == Len(mx) > 0
        mailbox == [status |-> "unknown", catchAll |-> FALSE,
                    classification |-> Absent, completed |-> Absent]
        safeToSend == LocalSafeToSend(formatOK, hasMX, dbl.listed, mailbox.status)
        list == LocalList(formatOK, dbl.listed, safeToSend)
    IN  [source |-> "local", input |-> email, formatOK |-> formatOK,
         domain |-> domain, hasMX |-> hasMX, mx |-> mx, mailbox |-> mailbox,
         dbl |-> dbl, whois |-> [created |-> created],
         verdict |-> [list |-> list, safeToSend |-> safeToSend, strict |-> FALSE,
                      confidence |-> [score |-> 4, band |-> "medium", ageDays |-> 0]],
         notes |-> <<Notes.local>>]

(***************************************************************************)
(* The provider path of the handler: verify.ts and the copy in ping.ts      *)
(* differ in how they derive mailbox and safeToSend.                        *)
(***************************************************************************)
\* verify.ts: safeToSend and mailbox.status
SafeToSendVerify(entry) == verifaliaSafe(entry)

MailboxStatusVerify(safeToSend, entry) ==
    IF safeToSend THEN "deliverable"
    ELSE IF LowerStr(ClsOrUnknown(entry)) = "undeliverable" THEN "undeliverable"
    ELSE "unknown"

\* ping.ts: mailbox.status, then safeToSend
SafeToSendPing_NoMailbox(formatOK, hasMX, listed, status, entry) ==
    formatOK /\ hasMX /\ ~listed

MailboxStatusPing(entry) ==
    LET incoming == LowerStr(ClsOrUnknown(entry))
        s1 == IF incoming \in {"deliverable", "undeliverable", "risky"}
              THEN incoming ELSE "unknown"
    IN  IF entry.present /\ entry.isCatchAll THEN "catch-all" ELSE s1

SafeToSendPing(formatOK, hasMX, listed, status, entry) ==
    formatOK /\ hasMX /\ ~listed /\ status # "undeliverable" /\ verifaliaSafe(entry)

ConfidenceScore(safeToSend, list) ==
    IF safeToSend THEN 9 ELSE IF list = "greylist" THEN 5 ELSE 2

ConfidenceBand(safeToSend, list) ==
    IF safeToSend THEN "high" ELSE IF list = "greylist" THEN "medium" ELSE "low"

providerBody(which, email, formatOK, domain, mx, dbl, created, entry, t) ==
    LET hasMX == Len(mx) > 0
        classification == ClsOrUnknown(entry)
        completed == "Completed"
        statusV == MailboxStatusVerify(SafeToSendVerify(entry), entry)
        statusP == MailboxStatusPing(entry)
        status == IF which = "verify" THEN statusV ELSE statusP
        safeToSend == IF which = "verify"
                      THEN SafeToSendVerify(entry)
                      ELSE SafeToSendPing(formatOK, hasMX, dbl.listed, status, entry)
        list == toList(entry)
        mailbox == [status |-> status,
                    catchAll |-> (which = "ping" /\ entry.present /\ entry.isCatchAll),
                    classification |-> classification, completed |-> completed]
    IN  [source |-> "verifalia", input |-> email, formatOK |-> formatOK,
         domain |-> domain, hasMX |-> hasMX, mx |-> mx, mailbox |-> mailbox,
         dbl |-> dbl, whois |-> [created |-> created],
         verdict |-> [list |-> list, safeToSend |-> safeToSend, strict |-> TRUE,
                      confidence |-> [score |-> ConfidenceScore(safeToSend, list),
                                      band |-> ConfidenceBand(safeToSend, list),
                                      ageDays |-> ageDaysOf(created, t)]],
         notes |-> <<Notes.provider1, Notes.provider2>>]

(***************************************************************************)
(* The verify handler as a state machine.  One request is in flight at a    *)
(* time; it yields at every await, where time may pass.                     *)
(***************************************************************************)
NoCalls == [mx |-> 0, a |-> 0, dbl |-> 0, rdap |-> 0, whois |-> 0, prov |-> 0]
NotListed == [listed |-> FALSE, engine |-> DBL_ENGINE]

IdleRq == [email |-> <<>>, formatOK |-> FALSE, domain |-> <<>>, pending |-> {},
           mx |-> <<>>, dbl |-> NotListed, created |-> Null, err |-> "",
           calls |-> NoCalls, follows |-> FALSE, within |-> FALSE,
           stale |-> FALSE, bstep |-> "none",
           bmx |-> <<>>, bdbl |-> NotListed, bcreated |-> Null]

NoResp == [has |-> FALSE, n |-> 0]

CacheHit_Inclusive(c, email, t) == email \in DOMAIN c /\ t - c[email].ts <= TTL_MS

\* hit && Date.now() - hit.ts < TTL_MS
CacheHit(c, email, t) == email \in DOMAIN c /\ t - c[email].ts < TTL_MS

\* cache.set(email, { ts: Date.now(), data })
CacheSet(c, email, t, data) ==
    [k \in DOMAIN c \cup {email} |->
        IF k = email THEN [ts |-> t, data |-> data] ELSE c[k]]

\* res.status(code).json(body), with the bookkeeping the properties read:
\* via is the path that answered, calls the upstream calls of this request,
\* follows whether the previous response was for the same key, within
\* whether this request arrived less than TTL_MS after it, and sameBody
\* whether the two bodies are equal
Respond(code, body, via, r) ==
    resp' = [has |-> TRUE, n |-> resp.n + 1, status |-> code, body |-> body,
             via |-> via, key |-> r.email, calls |-> r.calls, at |-> now,
             follows |-> r.follows, within |-> r.within,
             prevVia |-> IF r.follows THEN resp.via ELSE "none",
             sameBody |-> r.follows /\ resp.body = body,
             stale |-> r.stale, err |-> r.err]

VInit ==
    /\ impl \in {"verify", "ping"}
    /\ verifalia \in BOOLEAN
    /\ world \in [prof : {Prof[k] : k \in DOMAIN Prof}, wx : {Wx[k] : k \in DOMAIN Wx}]
    /\ now = 0
    /\ cache = << >>
    /\ pc = "idle"
    /\ rq = IdleRq
    /\ resp = NoResp
    /\ nreq = 0

\* time passes; Date.now() is read on arrival and at cache.set, and every
\* path from the one to the other awaits the joined lookups, so letting
\* time pass between requests and during that await reaches every pair of
\* readings
Tick ==
    /\ pc \in {"idle", "lookups"}
    /\ \E t \in TimePoints :
        /\ t > now
        /\ now' = t
    /\ UNCHANGED <<impl, verifalia, world, cache, pc, rq, resp, nreq, sc, ins, wt, rl>>

\* handler entry up to the first await: normalisation, the cache lookup and,
\* on a miss, the start of the three lookups of Promise.all
Receive ==
    /\ pc = "idle"
    /\ nreq < MaxReq
    /\ \E raw \in {Raw[k] : k \in DOMAIN Raw} :
        LET email == Normalize(raw)
            formatOK == isEmail(email)
            domain == DomainOf(email, formatOK)
            started == IF domain # <<>> THEN 1 ELSE 0
            follows == resp.has /\ resp.key = email
            r0 == [IdleRq EXCEPT !.email = email, !.follows = follows,
                      !.within = follows /\ now - resp.at < TTL_MS,
                      !.stale = email \in DOMAIN cache
                                /\ now - cache[email].ts >= TTL_MS]
        IN  IF CacheHit(cache, email, now)
            THEN /\ Respond(200, cache[email].data, "hit", r0)
                 /\ UNCHANGED <<pc, rq, cache>>
            ELSE /\ rq' = [r0 EXCEPT !.formatOK = formatOK, !.domain = domain,
                              !.pending = IF domain # <<>>
                                          THEN {"mx", "dbl", "rdap"} ELSE {},
                              !.calls = [NoCalls EXCEPT !.mx = started,
                                            !.dbl = started, !.rdap = started]]
                 /\ pc' = "lookups"
                 /\ UNCHANGED <<resp, cache>>
    /\ nreq' = nreq + 1
    /\ UNCHANGED <<impl, verifalia, world, now, sc, ins, wt, rl>>

\* resolveMxSafe of Promise.all settles
MainMx ==
    /\ pc = "lookups"
    /\ "mx" \in rq.pending
    /\ rq' = [rq EXCEPT !.pending = @ \ {"mx"},
                 !.mx = resolveMxSafe(rq.domain, world.prof, world.wx.mx, world.wx.a),
                 !.calls.a = @ + (IF resolveMxSafeUsesA(world.prof, world.wx.mx)
                                  THEN 1 ELSE 0)]
    /\ UNCHANGED <<impl, verifalia, world, now, cache, pc, resp, nreq, sc, ins, wt, rl>>

\* dblCheckDomain of Promise.all settles
MainDbl ==
    /\ pc = "lookups"
    /\ "dbl" \in rq.pending
    /\ rq' = [rq EXCEPT !.pending = @ \ {"dbl"},
                 !.dbl = dblCheckDomain(world.prof, world.wx.dbl)]
    /\ UNCHANGED <<impl, verifalia, world, now, cache, pc, resp, nreq, sc, ins, wt, rl>>

\* rdapCreated of Promise.all settles
MainRdap ==
    /\ pc = "lookups"
    /\ "rdap" \in rq.pending
    /\ rq' = [rq EXCEPT !.pending = @ \ {"rdap"},
                 !.created = rdapCreated(world.prof, world.wx.fetch, world.wx.whois),
                 !.calls.whois = @ + (IF rdapPart(world.prof, world.wx.fetch) = Null
                                      THEN 1 ELSE 0)]
    /\ UNCHANGED <<impl, verifalia, world, now, cache, pc, resp, nreq, sc, ins, wt, rl>>

\* localBaseline(email) up to its first await
EnterBaseline(r) ==
    IF r.domain # <<>>
    THEN [r EXCEPT !.bstep = "mx", !.calls.mx = @ + 1]
    ELSE [r EXCEPT !.bstep = "done"]

\* Promise.all joined, no provider configured: localBaseline is called
JoinNoProvider ==
    /\ pc = "lookups"
    /\ rq.pending = {}
    /\ ~verifalia
    /\ rq' = EnterBaseline(rq)
    /\ pc' = "baseline"
    /\ UNCHANGED <<impl, verifalia, world, now, cache, resp, nreq, sc, ins, wt, rl>>

\* Promise.all joined, provider configured: the address is submitted
JoinSubmit ==
    /\ pc = "lookups"
    /\ rq.pending = {}
    /\ verifalia
    /\ rq' = [rq EXCEPT !.calls.prov = @ + 1]
    /\ pc' = "provider"
    /\ UNCHANGED <<impl, verifalia, world, now, cache, resp, nreq, sc, ins, wt, rl>>

\* the provider answers: the result is assembled, cached and sent
ProviderReturns ==
    /\ pc = "provider"
    /\ \E entry \in ProviderEntries :
        LET out == providerBody(impl, rq.email, rq.formatOK, rq.domain, rq.mx,
                                rq.dbl, rq.created, entry, now)
        IN  /\ cache' = CacheSet(cache, rq.email, now, out)
            /\ Respond(200, out, "provider", rq)
    /\ pc' = "idle"
    /\ rq' = IdleRq
    /\ UNCHANGED <<impl, verifalia, world, now, nreq, sc, ins, wt, rl>>

\* the provider call throws: the catch block calls localBaseline
ProviderThrows ==
    /\ pc = "provider"
    /\ \E msg \in ErrorMessages :
        rq' = EnterBaseline([rq EXCEPT !.err = msg])
    /\ pc' = "fallback"
    /\ UNCHANGED <<impl, verifalia, world, now, cache, resp, nreq, sc, ins, wt, rl>>

\* localBaseline: await resolveMxSafe(domain), then dblCheckDomain is called
BaseMx ==
    /\ pc \in {"baseline", "fallback"}
    /\ rq.bstep = "mx"
    /\ rq' = [rq EXCEPT !.bstep = "dbl",
                 !.bmx = resolveMxSafe(rq.domain, world.prof, world.wx.mx, world.wx.a),
                 !.calls.a = @ + (IF resolveMxSafeUsesA(world.prof, world.wx.mx)
                                  THEN 1 ELSE 0),
                 !.calls.dbl = @ + 1]
    /\ UNCHANGED <<impl, verifalia, world, now, cache, pc, resp, nreq, sc, ins, wt, rl>>

\* localBaseline: await dblCheckDomain(domain), then rdapCreated is called
BaseDbl ==
    /\ pc \in {"baseline", "fallback"}
    /\ rq.bstep = "dbl"
    /\ rq' = [rq EXCEPT !.bstep = "rdap",
                 !.bdbl = dblCheckDomain(world.prof, world.wx.dbl),
                 !.calls.rdap = @ + 1]
    /\ UNCHANGED <<impl, verifalia, world, now, cache, pc, resp, nreq, sc, ins, wt, rl>>

\* localBaseline: await rdapCreated(domain)
BaseRdap ==
    /\ pc \in {"baseline", "fallback"}
    /\ rq.bstep = "rdap"
    /\ rq' = [rq EXCEPT !.bstep = "done",
                 !.bcreated = rdapCreated(world.prof, world.wx.fetch, world.wx.whois),
                 !.calls.whois = @ + (IF rdapPart(world.prof, world.wx.fetch) = Null
                                      THEN 1 ELSE 0)]
    /\ UNCHANGED <<impl, verifalia, world, now, cache, pc, resp, nreq, sc, ins, wt, rl>>

\* no provider: the local baseline is cached and sent
BaselineRespond ==
    /\ pc = "baseline"
    /\ rq.bstep = "done"
    /\ LET data == localBaselineBody(rq.email, rq.bmx, rq.bdbl, rq.bcreated)
       IN  /\ cache' = CacheSet(cache, rq.email, now, data)
           /\ Respond(200, data, "baseline", rq)
    /\ pc' = "idle"
    /\ rq' = IdleRq
    /\ UNCHANGED <<impl, verifalia, world, now, nreq, sc, ins, wt, rl>>

ErrorNote_Generic(msg) == "verifier_error"

\* e?.message || "verifier_error"
ErrorNote(msg) == IF msg # "" THEN msg ELSE "verifier_error"

\* a catch block that answers with the bare baseline
FallbackRespond_NoNote ==
    /\ pc = "fallback"
    /\ rq.bstep = "done"
    /\ Respond(200, localBaselineBody(rq.email, rq.bmx, rq.bdbl, rq.bcreated),
               "fallback", rq)
    /\ pc' = "idle"
    /\ rq' = IdleRq
    /\ UNCHANGED <<impl, verifalia, world, now, cache, nreq, sc, ins, wt, rl>>

\* catch block: the local baseline with the error note is sent, not cached
FallbackRespond ==
    /\ pc = "fallback"
    /\ rq.bstep = "done"
    /\ LET fallback == localBaselineBody(rq.email, rq.bmx, rq.bdbl, rq.bcreated)
           body == [fallback EXCEPT !.notes = Append(@, ErrorNote(rq.err))]
       IN  Respond(200, body, "fallback", rq)
    /\ pc' = "idle"
    /\ rq' = IdleRq
    /\ UNCHANGED <<impl, verifalia, world, now, cache, nreq, sc, ins, wt, rl>>

VNext ==
    \/ Tick
    \/ Receive
    \/ MainMx
    \/ MainDbl
    \/ MainRdap
    \/ JoinNoProvider
    \/ JoinSubmit
    \/ ProviderReturns
    \/ ProviderThrows
    \/ BaseMx
    \/ BaseDbl
    \/ BaseRdap
    \/ BaselineRespond
    \/ FallbackRespond

\* the other machines at rest
Off == [pc |-> "off"]

Init ==
    /\ VInit
    /\ sc = Off
    /\ ins = Off
    /\ wt = Off
    /\ rl = Off

Next == VNext

Spec == Init /\ [][Next]_vars

(***************************************************************************)
(* Properties of the verify handler.                                        *)
(***************************************************************************)
Body == resp.body

\* C1: a response for a domain listed on the blocklist zone has
\* list = blacklist and safeToSend = false, whatever the provider says
C1_BlocklistedIsBlacklisted ==
    (resp.has /\ Body.dbl.listed)
        => (Body.verdict.list = "blacklist" /\ ~Body.verdict.safeToSend)

\* C2: in every response, on every path, mailbox.status = "undeliverable"
\* implies safeToSend = false
C2_UndeliverableNeverSafe ==
    (resp.has /\ Body.mailbox.status = "undeliverable") => ~Body.verdict.safeToSend

C2_Witness ==
    /\ resp.has
    /\ resp.via = "hit"
    /\ Body.mailbox.status = "undeliverable"
    /\ Body.formatOK /\ Body.hasMX /\ ~Body.dbl.listed

\* C4: a call that follows a call for the same normalized address by less
\* than TTL_MS gets the same body and issues no upstream call, whatever path
\* answered the first call
C4_CacheIdempotence ==
    (resp.has /\ resp.follows /\ resp.within)
        => (resp.sameBody /\ resp.calls = NoCalls)

\* C5: a request that finds a cache entry of age >= TTL_MS is not answered
\* from the cache: it runs the lookups for its domain again and, when the
\* provider is configured, the provider call
C5_ExpiredEntryNotServed ==
    (resp.has /\ resp.stale)
        => /\ resp.via # "hit"
           /\ Body.formatOK =>
                (resp.calls.mx >= 1 /\ resp.calls.dbl >= 1 /\ resp.calls.rdap >= 1)
           /\ verifalia => resp.calls.prov >= 1

C5_Witness ==
    /\ resp.has
    /\ resp.stale
    /\ resp.via = "provider"
    /\ Body.formatOK
    /\ resp.at = TTL_MS

\* C6: for a well-formed address whose domain has neither MX nor A record,
\* hasMX = false and list is never whitelist
C6_NoMxNeverWhitelist ==
    (resp.has /\ Body.formatOK /\ world.prof.mx = <<>> /\ ~world.prof.a)
        => (~Body.hasMX /\ Body.verdict.list # "whitelist")

\* C7: every response has status 200, a request gets one response and no
\* more, a finished handler has answered, and the answer of the catch block
\* is the local baseline with the failure message among its notes
C7_Always200OneResponse ==
    /\ resp.n <= nreq
    /\ nreq - resp.n <= 1
    /\ pc = "idle" => resp.n = nreq
    /\ resp.has => resp.status = 200
    /\ (resp.has /\ resp.via = "fallback")
          => /\ Body.source = "local"
             /\ Body.notes[1] = Notes.local
             /\ Body.mailbox.status = "unknown"
             /\ resp.err # "" => resp.err \in Range(Body.notes)
             /\ resp.err = "" => "verifier_error" \in Range(Body.notes)

C7_Witness ==
    /\ resp.has
    /\ resp.via = "fallback"
    /\ resp.err = "Request timed out"
    /\ resp.n = 2
    /\ pc = "idle"

(***************************************************************************)
(* inspect.ts: registrable domains, brand alignment and scoreVerdict.       *)
(***************************************************************************)
Dom ==
    [ebay_com |-> <<"e", "b", "a", "y", ".", "c", "o", "m">>,
     ebay_co_uk |-> <<"e", "b", "a", "y", ".", "c", "o", ".", "u", "k">>,
     ebaystatic_com |-> <<"e", "b", "a", "y", "s", "t", "a", "t", "i", "c", ".", "c", "o", "m">>,
     ebaydesc_com |-> <<"e", "b", "a", "y", "d", "e", "s", "c", ".", "c", "o", "m">>,
     ebayinc_com |-> <<"e", "b", "a", "y", "i", "n", "c", ".", "c", "o", "m">>,
     microsoftonline_com |-> <<"m", "i", "c", "r", "o", "s", "o", "f", "t", "o", "n", "l", "i", "n", "e", ".", "c", "o", "m">>,
     office_com |-> <<"o", "f", "f", "i", "c", "e", ".", "c", "o", "m">>,
     live_com |-> <<"l", "i", "v", "e", ".", "c", "o", "m">>,
     windows_com |-> <<"w", "i", "n", "d", "o", "w", "s", ".", "c", "o", "m">>,
     googleusercontent_com |-> <<"g", "o", "o", "g", "l", "e", "u", "s", "e", "r", "c", "o", "n", "t", "e", "n", "t", ".", "c", "o", "m">>,
     gstatic_com |-> <<"g", "s", "t", "a", "t", "i", "c", ".", "c", "o", "m">>,
     withgoogle_com |-> <<"w", "i", "t", "h", "g", "o", "o", "g", "l", "e", ".", "c", "o", "m">>,
     icloud_com |-> <<"i", "c", "l", "o", "u", "d", ".", "c", "o", "m">>,
     appleid_apple_com |-> <<"a", "p", "p", "l", "e", "i", "d", ".", "a", "p", "p", "l", "e", ".", "c", "o", "m">>,
     ebay_inccom |-> <<"e", "b", "a", "y", ".", "i", "n", "c", "c", "o", "m">>,
     paypal_com |-> <<"p", "a", "y", "p", "a", "l", ".", "c", "o", "m">>,
     paypa1_com |-> <<"p", "a", "y", "p", "a", "1", ".", "c", "o", "m">>,
     evil_net |-> <<"e", "v", "i", "l", ".", "n", "e", "t">>,
     www_ebay_co_uk |-> <<"w", "w", "w", ".", "e", "b", "a", "y", ".", "c", "o", ".", "u", "k">>,
     ebay |-> <<"e", "b", "a", "y">>,
     microsoft |-> <<"m", "i", "c", "r", "o", "s", "o", "f", "t">>,
     google |-> <<"g", "o", "o", "g", "l", "e">>,
     apple |-> <<"a", "p", "p", "l", "e">>]

\* psl.parse(host).domain over the public suffixes the hosts use: the longest
\* listed suffix (co.uk before uk, else the last label) plus one label;
\* NoParse when the host is malformed or is itself a public suffix
TwoLabelSuffixes == { <<<<"c", "o">>, <<"u", "k">>>> }

NoParse == <<>>

pslDomain(host) ==
    LET labels == Split(host, ".")
        n == Len(labels)
        tldLen == IF n >= 2 /\ SubSeq(labels, n - 1, n) \in TwoLabelSuffixes
                  THEN 2 ELSE 1
    IN  IF host = <<>> \/ \E i \in 1..n : labels[i] = <<>> THEN NoParse
        ELSE IF n <= tldLen THEN NoParse
        ELSE Join(SubSeq(labels, n - tldLen, n), ".")

baseDomain(host) == IF pslDomain(host) # NoParse THEN pslDomain(host) ELSE host

\* d.split(".")[0] || d
rootLabel(domain) ==
    LET d == baseDomain(domain)
        first == Split(d, ".")[1]
    IN  IF first # <<>> THEN first ELSE d

sameBrand(a, b) ==
    LET da == baseDomain(a)
        db == baseDomain(b)
        ra == rootLabel(da)
        rb == rootLabel(db)
    IN  IF da = db THEN TRUE
        ELSE ra # <<>> /\ rb # <<>> /\ ra = rb

BRAND_ALLOW(key) ==
    CASE key = Dom.ebay -> <<Dom.ebaystatic_com, Dom.ebaydesc_com, Dom.ebayinc_com>>
      [] key = Dom.microsoft -> <<Dom.microsoftonline_com, Dom.office_com, Dom.live_com,
                                Dom.windows_com>>
      [] key = Dom.google -> <<Dom.googleusercontent_com, Dom.gstatic_com, Dom.withgoogle_com>>
      [] key = Dom.apple -> <<Dom.icloud_com, Dom.appleid_apple_com>>
      [] OTHER -> <<>>

Min2(a, b) == IF a <= b THEN a ELSE b

\* levenshtein.get(a, b): the edit distance, row by row; each row and each
\* cell is computed before the next one is started
RECURSIVE LevRow(_, _, _, _)
LevRow(prevRow, ch, b, row) ==
    LET j == Len(row) IN
    IF j > Len(b) THEN row
    ELSE LET cost == IF b[j] = ch THEN 0 ELSE 1
             v == Min2(Min2(prevRow[j + 1] + 1, row[j] + 1), prevRow[j] + cost)
         IN  IF v >= 0 THEN LevRow(prevRow, ch, b, Append(row, v)) ELSE row

RECURSIVE LevRows(_, _, _, _)
LevRows(a, b, i, prevRow) ==
    IF i > Len(a) THEN prevRow[Len(b) + 1]
    ELSE LET row == LevRow(prevRow, a[i], b, <<i>>)
         IN  IF Len(row) > 0 THEN LevRows(a, b, i + 1, row) ELSE 0

levenshtein(a, b) == LevRows(a, b, 1, [j \in 1..(Len(b) + 1) |-> j - 1])

\* the alternatives of spamPat
SpamPhrases ==
    { <<"w", "i", "n", "n", "e", "r">>,
      <<"y", "o", "u", " ", "w", "o", "n">>,
      <<"c", "l", "a", "i", "m", " ", "n", "o", "w">>,
      <<"f", "r", "e", "e", " ", "g", "i", "f", "t">>,
      <<"f", "r", "e", "e", " ", "b", "o", "n", "u", "s">>,
      <<"g", "i", "f", "t", " ", "c", "a", "r", "d">>,
      <<"g", "u", "a", "r", "a", "n", "t", "e", "e">>,
      <<"a", "c", "t", " ", "n", "o", "w">>,
      <<"l", "i", "m", "i", "t", "e", "d", " ", "t", "i", "m", "e">>,
      <<"w", "i", "r", "e", " ", "t", "r", "a", "n", "s", "f", "e", "r">> }

\* whether pat occurs in text
Contains(text, pat) ==
    \E i \in 1..(Len(text) - Len(pat) + 1) : SubSeq(text, i, i + Len(pat) - 1) = pat

\* spamPat.test(inp.text.toLowerCase())
SpamHit(text) == \E pat \in SpamPhrases : Contains(ToLowerCase(text), pat)

AuthFail(auth) == auth.spf = "fail" \/ auth.dkim = "fail" \/ auth.dmarc = "fail"

NoDomain == <<>>

\* the allow set built from the sender domain
AllowSet(fromDomain) ==
    LET extra == BRAND_ALLOW(rootLabel(fromDomain)) IN
    {baseDomain(fromDomain)} \cup {baseDomain(extra[i]) : i \in 1..Len(extra)}

Aligned(d, fromDomain) ==
    sameBrand(d, fromDomain) \/ baseDomain(d) \in AllowSet(fromDomain)

Lookalike(d, fromDomain) ==
    levenshtein(baseDomain(d), baseDomain(fromDomain)) <= 2 /\ ~sameBrand(d, fromDomain)

\* the list misaligned after the loop over inp.linkDomains
Misaligned(fromDomain, linkDomains) ==
    IF fromDomain = NoDomain THEN <<>>
    ELSE LET NotAligned(d) == ~Aligned(d, fromDomain)
         IN  SelectSeq(linkDomains, NotAligned)

\* the flag isClone after the loop
IsClone(fromDomain, linkDomains) ==
    /\ fromDomain # NoDomain
    /\ \E i \in 1..Len(linkDomains) : Lookalike(linkDomains[i], fromDomain)

\* the five scoring rules, in the order the code applies them
AddSpam(st, spamHit) ==
    IF spamHit THEN [points |-> st.points + 1,
                     reasons |-> Append(st.reasons, "Spam language")]
    ELSE st

AddAuth(st, auth) ==
    IF AuthFail(auth) THEN [points |-> st.points + 3,
                            reasons |-> Append(st.reasons, "Auth fail in headers")]
    ELSE st

AddClone(st, isClone) ==
    IF isClone THEN [points |-> st.points + 3,
                     reasons |-> Append(st.reasons, "Lookalike domain similar to sender")]
    ELSE st

AddMisaligned(st, misaligned) ==
    IF Len(misaligned) > 0
    THEN [points |-> st.points + 2,
          reasons |-> Append(st.reasons, "Links go to other brands/domains")]
    ELSE st

AddDnsMissing_Assign(st, dnsMissingCount) ==
    IF dnsMissingCount > 0
    THEN [points |-> 2,
          reasons |-> Append(st.reasons, "Some linked domains have no DNS")]
    ELSE st

AddDnsMissing(st, dnsMissingCount) ==
    IF dnsMissingCount > 0
    THEN [points |-> st.points + 2,
          reasons |-> Append(st.reasons, "Some linked domains have no DNS")]
    ELSE st

VerdictOf_Strict(points, isClone, spamHit) ==
    IF points > 5 THEN (IF isClone THEN "clone" ELSE "phishing")
    ELSE IF points > 3 THEN "warning"
    ELSE IF spamHit THEN "spam"
    ELSE "safe"

\* the verdict from the points
VerdictOf(points, isClone, spamHit) ==
    IF points >= 5 THEN (IF isClone THEN "clone" ELSE "phishing")
    ELSE IF points >= 3 THEN "warning"
    ELSE IF spamHit THEN "spam"
    ELSE "safe"

TipsOf(verdict) ==
    IF verdict \in {"phishing", "clone"}
    THEN <<"Do not click links", "Do not reply", "Report to IT", "Delete the email">>
    ELSE IF verdict = "spam" THEN <<"Delete the email", "Block the sender">>
    ELSE IF verdict = "warning"
    THEN <<"Verify the sender", "Hover over links to check domain">>
    ELSE <<"Looks OK from checks", "Still verify unexpected requests">>

\* scoreVerdict(inp); points, isClone and spamHit are its locals, kept in the
\* result for the properties to read
scoreVerdict(inp) ==
    LET spamHit == SpamHit(inp.text)
        isClone == IsClone(inp.fromDomain, inp.linkDomains)
        misaligned == Misaligned(inp.fromDomain, inp.linkDomains)
        st == AddDnsMissing(
                AddMisaligned(
                  AddClone(
                    AddAuth(
                      AddSpam([points |-> 0, reasons |-> <<>>], spamHit),
                      inp.auth),
                    isClone),
                  misaligned),
                inp.dnsMissingCount)
        verdict == VerdictOf(st.points, isClone, spamHit)
    IN  [verdict |-> verdict, reasons |-> st.reasons, tips |-> TipsOf(verdict),
         points |-> st.points, isClone |-> isClone, spamHit |-> spamHit,
         misaligned |-> misaligned]

(***************************************************************************)
(* scoreVerdict applied to drawn inputs, then to the same input with one    *)
(* more risk signal turned on.                                              *)
(***************************************************************************)
Texts ==
    [hello |-> <<"H", "e", "l", "l", "o", " ", "t", "e", "a", "m">>,
     winner |-> <<"Y", "o", "u", " ", "a", "r", "e", " ", "a", " ", "W", "I", "N", "N", "E", "R", "!">>,
     markup |-> <<"<", "p", ">", "H", "e", "l", "l", "o", " ", "t", "e", "a", "m", "<", "/", "p", ">">>,
     wire |-> <<"P", "l", "e", "a", "s", "e", " ", "s", "e", "n", "d", " ", "a", " ", "w", "i", "r", "e", " ", "t", "r", "a", "n", "s", "f", "e", "r">>,
     fromEbay |-> <<"a", "l", "e", "r", "t", "s", "@", "e", "b", "a", "y", ".", "c", "o", "m">>,
     fromPaypa1 |-> <<"s", "u", "p", "p", "o", "r", "t", "@", "p", "a", "y", "p", "a", "1", ".", "c", "o", "m">>,
     authPass |-> <<"m", "x", ".", "e", "x", "a", "m", "p", "l", "e", ";", " ", "s", "p", "f", "=", "p", "a", "s", "s", " ", "d", "k", "i", "m", "=", "p", "a", "s", "s", " ", "d", "m", "a", "r", "c", "=", "p", "a", "s", "s">>,
     authSoftfail |-> <<"m", "x", ".", "e", "x", "a", "m", "p", "l", "e", ";", " ", "S", "P", "F", "=", "s", "o", "f", "t", "f", "a", "i", "l", " ", "d", "k", "i", "m", "=", "n", "o", "n", "e">>,
     authDkimFail |-> <<"d", "k", "i", "m", "=", "f", "a", "i", "l">>]

ScoreLinks == {Dom.ebay_co_uk, Dom.ebaystatic_com, Dom.paypal_com, Dom.evil_net}

AuthUnknown == [spf |-> "unknown", dkim |-> "unknown", dmarc |-> "unknown"]
AuthNA == [spf |-> "n/a", dkim |-> "n/a", dmarc |-> "n/a"]
AuthSamples ==
    {AuthUnknown, AuthNA,
     [spf |-> "pass", dkim |-> "pass", dmarc |-> "pass"],
     [spf |-> "pass", dkim |-> "fail", dmarc |-> "unknown"],
     [spf |-> "softfail", dkim |-> "unknown", dmarc |-> "none"]}

\* the sequences over S of length at most n
RECURSIVE SeqsUpTo(_, _)
SeqsUpTo(S, n) ==
    IF n = 0 THEN {<<>>}
    ELSE LET shorter == SeqsUpTo(S, n - 1)
         IN  shorter \cup {Append(q, x) : q \in shorter, x \in S}

ScoreInputs ==
    [fromDomain : {NoDomain, Dom.ebay_com, Dom.paypa1_com},
     linkDomains : SeqsUpTo(ScoreLinks, MaxLinks),
     auth : AuthSamples, text : {Texts.hello, Texts.winner}, dnsMissingCount : 0..MaxDnsMissing]
    \cup [fromDomain : {Dom.ebay_inccom},
          linkDomains : SeqsUpTo({Dom.ebayinc_com, Dom.evil_net}, MaxLinks),
          auth : AuthSamples, text : {Texts.hello, Texts.winner},
          dnsMissingCount : 0..MaxDnsMissing]

\* one more risk signal
Signals ==
    [kind : {"auth"}, field : {"spf", "dkim", "dmarc"}, d : {NoDomain}, n : {0}]
    \cup [kind : {"link"}, field : {"none"}, d : ScoreLinks, n : {0}]
    \cup [kind : {"dns"}, field : {"none"}, d : {NoDomain}, n : 1..MaxDnsMissing]

WithSignal(inp, sig) ==
    CASE sig.kind = "auth" ->
           [inp EXCEPT !.auth = [f \in {"spf", "dkim", "dmarc"} |->
                                  IF f = sig.field THEN "fail" ELSE inp.auth[f]]]
      [] sig.kind = "link" -> [inp EXCEPT !.linkDomains = Append(@, sig.d)]
      [] OTHER -> IF inp.dnsMissingCount = 0
                  THEN [inp EXCEPT !.dnsMissingCount = sig.n] ELSE inp

ScInit == sc \in [pc : {"input"}, inp : ScoreInputs]

\* scoreVerdict is applied to the input
ScScore ==
    /\ sc.pc = "input"
    /\ sc' = [pc |-> "scored", inp |-> sc.inp, out |-> scoreVerdict(sc.inp)]
    /\ UNCHANGED <<verifyVars, ins, wt, rl>>

\* scoreVerdict is applied to the input with one more signal
ScAddSignal ==
    /\ sc.pc = "scored"
    /\ \E sig \in Signals :
        /\ WithSignal(sc.inp, sig) # sc.inp
        /\ sc' = [pc |-> "rescored", inp |-> WithSignal(sc.inp, sig),
                  out |-> scoreVerdict(WithSignal(sc.inp, sig)),
                  base |-> sc.out, sig |-> sig]
    /\ UNCHANGED <<verifyVars, ins, wt, rl>>

\* the verify handler at rest
VRest ==
    /\ impl = "verify"
    /\ verifalia = FALSE
    /\ world = [prof |-> Prof.good, wx |-> Wx.allOk]
    /\ now = 0
    /\ cache = << >>
    /\ pc = "idle"
    /\ rq = IdleRq
    /\ resp = NoResp
    /\ nreq = 0

InitScore ==
    /\ VRest
    /\ ScInit
    /\ ins = Off
    /\ wt = Off
    /\ rl = Off

NextScore == ScScore \/ ScAddSignal

SpecScore == InitScore /\ [][NextScore]_vars

\* C8: turning on one more risk signal (an auth value set to fail, one more
\* link domain, dnsMissingCount raised from 0) never lowers the points
C8_ScoreMonotone ==
    sc.pc = "rescored" => sc.out.points >= sc.base.points

\* a lookalike link is added to a message that already had an auth failure
\* and a misaligned link
C8_Witness ==
    /\ sc.pc = "rescored"
    /\ sc.sig.kind = "link"
    /\ ~sc.base.isClone /\ sc.out.isClone
    /\ Len(sc.base.misaligned) > 0
    /\ sc.out.points = sc.base.points + 3

\* C9: points >= 5 gives clone when isClone and phishing otherwise, points
\* 3 and 4 give warning, fewer give spam when the spam pattern matched and
\* safe otherwise; zero points always give safe
C9_VerdictMapping ==
    sc.pc \in {"scored", "rescored"} =>
        /\ sc.out.points >= 5 =>
              sc.out.verdict = (IF sc.out.isClone THEN "clone" ELSE "phishing")
        /\ (sc.out.points >= 3 /\ sc.out.points < 5) => sc.out.verdict = "warning"
        /\ sc.out.points < 3 =>
              sc.out.verdict = (IF sc.out.spamHit THEN "spam" ELSE "safe")
        /\ sc.out.points = 0 => sc.out.verdict = "safe"

\* exactly five points without a lookalike: phishing
C9_Witness ==
    /\ sc.pc = "scored"
    /\ sc.out.points = 5
    /\ ~sc.out.isClone
    /\ sc.out.verdict = "phishing"

(***************************************************************************)
(* The inspect handler.  A payload carries its characters and the URLs the  *)
(* link detector (in text) and the anchor query (in HTML) find in it; a     *)
(* parsed message carries the fields the mail parser returns for it.        *)
(***************************************************************************)
NoBlob == [chars |-> <<>>, urls |-> <<>>]

\* String.prototype.startsWith
StartsWith(str, prefix) ==
    Len(str) >= Len(prefix) /\ SubSeq(str, 1, Len(prefix)) = prefix

\* the strings pickAuthFromHeaders can return, as TLA+ strings
StrOf(chars) ==
    CASE chars = <<"p", "a", "s", "s">> -> "pass"
      [] chars = <<"f", "a", "i", "l">> -> "fail"
      [] chars = <<"s", "o", "f", "t", "f", "a", "i", "l">> -> "softfail"
      [] chars = <<"n", "o", "n", "e">> -> "none"
      [] chars = <<"n", "e", "u", "t", "r", "a", "l">> -> "neutral"
      [] OTHER -> "other"

\* the run of [a-z] that starts at position i
RECURSIVE LetterRun(_, _)
LetterRun(str, i) ==
    IF i <= Len(str) /\ str[i] \in Letters
    THEN <<str[i]>> \o LetterRun(str, i + 1)
    ELSE <<>>

\* lower.match(new RegExp(`${tag}=([a-z]+)`)): the first place where tag=
\* is followed by a letter
RECURSIVE MatchTag(_, _, _)
MatchTag(lower, tag, i) ==
    LET pat == tag \o <<"=">> IN
    IF i + Len(pat) > Len(lower) THEN "unknown"
    ELSE IF SubSeq(lower, i, i + Len(pat) - 1) = pat
            /\ lower[i + Len(pat)] \in Letters
         THEN StrOf(LetterRun(lower, i + Len(pat)))
    ELSE MatchTag(lower, tag, i + 1)

pickAuthFromHeaders(authLine) ==
    IF authLine = <<>> THEN AuthUnknown
    ELSE LET lower == ToLowerCase(authLine) IN
         [spf |-> MatchTag(lower, <<"s", "p", "f">>, 1),
          dkim |-> MatchTag(lower, <<"d", "k", "i", "m">>, 1),
          dmarc |-> MatchTag(lower, <<"d", "m", "a", "r", "c">>, 1)]

\* Array.from(new Set(seq)): first occurrences, in order
RECURSIVE Dedupe(_)
Dedupe(q) ==
    IF q = <<>> THEN <<>>
    ELSE LET front == Dedupe(SubSeq(q, 1, Len(q) - 1))
             x == q[Len(q)]
         IN  IF x \in Range(front) THEN front ELSE Append(front, x)

\* extractLinks(text, html): link detector matches, then anchors that are
\* not mailto:, deduplicated; only parseable http(s) URLs are kept
extractLinks(text, html) ==
    LET NotMailto(u) == u.protocol # "mailto:"
        IsHttp(u) == u.protocol \in {"http:", "https:"}
    IN  SelectSeq(Dedupe(text.urls \o SelectSeq(html.urls, NotMailto)), IsHttp)

\* the deduplicated registrable domains of the links
linkDomainsOf(links) ==
    LET NonEmpty(d) == d # <<>>
    IN  SelectSeq(Dedupe([i \in 1..Len(links) |-> baseDomain(links[i].host)]),
                  NonEmpty)

\* meta.from.includes("@") ? baseDomain(meta.from.split("@")[1]) : undefined
senderDomainOf(from) ==
    IF "@" \in Range(from) /\ Split(from, "@")[2] # <<>>
    THEN baseDomain(Split(from, "@")[2])
    ELSE NoDomain

\* step 1 of the handler: the message kind and the fields extracted;
\* outcome is "ok", or the status of the early answer
ParseContent(req) ==
    LET none == [outcome |-> "ok", kind |-> "raw", from |-> <<>>, text |-> NoBlob,
                 html |-> NoBlob, auth |-> AuthUnknown]
        parsed == req.payload.parsed
        asEml == [none EXCEPT !.kind = "eml", !.from = parsed.from,
                     !.text = parsed.text, !.html = parsed.html,
                     !.auth = pickAuthFromHeaders(parsed.authLine)]
    IN  CASE req.src = "badjson" -> [none EXCEPT !.outcome = "500"]
          [] req.src = "empty" -> [none EXCEPT !.outcome = "400"]
          [] req.src = "file" ->
               IF req.ext = "msg" \/ req.ft = "msg"
               THEN IF req.parseOk
                    THEN [none EXCEPT !.kind = "msg", !.from = parsed.from,
                             !.text = parsed.text, !.html = parsed.html,
                             !.auth = AuthNA]
                    ELSE [none EXCEPT !.kind = "msg", !.outcome = "400"]
               ELSE IF req.ext = "html" \/ req.ft = "html"
               THEN [none EXCEPT !.kind = "html", !.html = req.payload.asHtml,
                        !.auth = AuthNA]
               ELSE IF req.parseOk THEN asEml
               ELSE [none EXCEPT !.kind = "eml", !.outcome = "500"]
          [] OTHER ->
               IF req.parseOk THEN asEml
               ELSE IF StartsWith(Trim(req.payload.asText.chars), <<"<">>)
               THEN [none EXCEPT !.kind = "html", !.html = req.payload.asHtml,
                        !.auth = AuthNA]
               ELSE [none EXCEPT !.kind = "raw", !.text = req.payload.asText,
                        !.auth = AuthNA]

\* step 4: the positive confirmations put in front of the reasons of a
\* safe verdict
Positives(verdict, senderDomain, linkDomains, auth) ==
    IF verdict # "safe" THEN <<>>
    ELSE (IF senderDomain # NoDomain
             /\ \A i \in 1..Len(linkDomains) : sameBrand(linkDomains[i], senderDomain)
          THEN <<"Links align with sender brand">> ELSE <<>>)
         \o (IF auth.spf = "pass" \/ auth.dkim = "pass" \/ auth.dmarc = "pass"
             THEN <<"At least one auth signal passes">> ELSE <<>>)

(***************************************************************************)
(* SpecInspect: one request through the inspect handler.  The existence     *)
(* lookups of the link domains run concurrently and settle in any order.    *)
(***************************************************************************)
Urls ==
    [ebay_uk |-> [protocol |-> "https:", host |-> Dom.www_ebay_co_uk],
     ebaystatic |-> [protocol |-> "https:", host |-> Dom.ebaystatic_com],
     paypal |-> [protocol |-> "http:", host |-> Dom.paypal_com],
     evil |-> [protocol |-> "https:", host |-> Dom.evil_net],
     mailto |-> [protocol |-> "mailto:", host |-> Dom.ebay_com],
     relative |-> [protocol |-> "invalid", host |-> <<>>]]

\* four messages: a plain note without sender, links or authentication header;
\* a genuine brand mail with aligned links and passing authentication; a
\* lookalike sender pointing at the brand it imitates; an HTML document with
\* two anchors
Pay ==
    [plain |->
        [asText |-> [chars |-> Texts.hello, urls |-> <<>>],
         asHtml |-> [chars |-> Texts.hello, urls |-> <<>>],
         parsed |-> [from |-> <<>>,
                     text |-> [chars |-> Texts.hello, urls |-> <<>>],
                     html |-> NoBlob, authLine |-> <<>>]],
     brand |->
        [asText |-> [chars |-> Texts.hello, urls |-> <<Urls.ebay_uk>>],
         asHtml |-> [chars |-> Texts.hello, urls |-> <<>>],
         parsed |-> [from |-> Texts.fromEbay,
                     text |-> [chars |-> Texts.hello, urls |-> <<Urls.ebay_uk>>],
                     html |-> [chars |-> Texts.markup,
                               urls |-> <<Urls.ebaystatic, Urls.mailto,
                                          Urls.relative, Urls.ebay_uk>>],
                     authLine |-> Texts.authPass]],
     clone |->
        [asText |-> [chars |-> Texts.wire, urls |-> <<Urls.paypal>>],
         asHtml |-> [chars |-> Texts.wire, urls |-> <<>>],
         parsed |-> [from |-> Texts.fromPaypa1,
                     text |-> [chars |-> Texts.wire, urls |-> <<Urls.paypal>>],
                     html |-> NoBlob, authLine |-> Texts.authDkimFail]],
     markup |->
        [asText |-> [chars |-> Texts.markup, urls |-> <<>>],
         asHtml |-> [chars |-> Texts.markup, urls |-> <<Urls.evil, Urls.paypal>>],
         parsed |-> [from |-> <<>>, text |-> NoBlob,
                     html |-> [chars |-> Texts.markup,
                               urls |-> <<Urls.evil, Urls.paypal>>],
                     authLine |-> Texts.authSoftfail]]]

InsRequests ==
    [src : {"file"}, ext : {"msg", "html", "eml", "txt"},
     ft : {"none", "msg", "html"},
     parseOk : BOOLEAN, payload : {Pay[k] : k \in DOMAIN Pay}]
    \cup [src : {"raw"}, ext : {""}, ft : {"none"}, parseOk : BOOLEAN,
          payload : {Pay[k] : k \in DOMAIN Pay}]
    \cup [src : {"empty", "badjson"}, ext : {""}, ft : {"none"},
          parseOk : {TRUE}, payload : {Pay.plain}]

\* dnsExists(hostname): true when dns.lookup answers, false when it rejects;
\* resolves is the set of names for which it answers
dnsExists(hostname, resolves) == hostname \in resolves

\* a callback that records every result under one shared key
WriteStatus_Shared(dnsStatus, d, v) == [k \in {<<>>} |-> v]

\* dnsStatus[d] = v
WriteStatus(dnsStatus, d, v) ==
    [k \in DOMAIN dnsStatus \cup {d} |-> IF k = d THEN v ELSE dnsStatus[k]]

\* dnsStatus[d] ?? false
StatusOf(dnsStatus, d) == IF d \in DOMAIN dnsStatus THEN dnsStatus[d] ELSE FALSE

\* Object.values(dnsStatus).filter((v) => v === false).length
MissingCount(dnsStatus) == Cardinality({k \in DOMAIN dnsStatus : ~dnsStatus[k]})

\* the request is read and parsed, the links extracted, and one existence
\* lookup per link domain is started; resolves is what DNS holds for them
InsReceive ==
    /\ ins.pc = "idle"
    /\ \E req \in InsRequests :
         \E c \in {ParseContent(req)} :
           \E links \in {extractLinks(c.text, c.html)} :
             /\ c.outcome = "ok"
             /\ \E resolves \in SUBSET Range(linkDomainsOf(links)) :
                ins' = [pc |-> "dns", req |-> req, kind |-> c.kind,
                        from |-> c.from, text |-> c.text.chars,
                        html |-> c.html.chars, auth |-> c.auth,
                        links |-> links, linkDomains |-> linkDomainsOf(links),
                        pending |-> Range(linkDomainsOf(links)),
                        resolves |-> resolves, dnsStatus |-> << >>,
                        hung |-> {}]
    /\ UNCHANGED <<verifyVars, sc, wt, rl>>

\* nothing to inspect, or a .msg file the reader cannot read
InsBadRequest ==
    /\ ins.pc = "idle"
    /\ \E req \in InsRequests :
         \E c \in {ParseContent(req)} :
             /\ c.outcome = "400"
             /\ ins' = [pc |-> "done", req |-> req, status |-> 400,
                        kind |-> c.kind]
    /\ UNCHANGED <<verifyVars, sc, wt, rl>>

\* an exception that reaches the outer catch
InsServerError ==
    /\ ins.pc = "idle"
    /\ \E req \in InsRequests :
         \E c \in {ParseContent(req)} :
             /\ c.outcome = "500"
             /\ ins' = [pc |-> "done", req |-> req, status |-> 500,
                        kind |-> c.kind]
    /\ UNCHANGED <<verifyVars, sc, wt, rl>>

\* dnsExists(d) settles for one link domain
InsDnsSettle ==
    /\ ins.pc = "dns"
    /\ \E d \in ins.pending :
         ins' = [ins EXCEPT !.pending = @ \ {d},
                            !.dnsStatus = WriteStatus(@, d, dnsExists(d, ins.resolves))]
    /\ UNCHANGED <<verifyVars, sc, wt, rl>>

\* dns.lookup for one link domain never answers: dnsExists awaits it with
\* no timer, so its promise never settles
InsDnsHangs ==
    /\ ins.pc = "dns"
    /\ \E d \in ins.pending :
         ins' = [ins EXCEPT !.pending = @ \ {d}, !.hung = @ \cup {d}]
    /\ UNCHANGED <<verifyVars, sc, wt, rl>>

\* all lookups settled: score, add the positive confirmations, answer 200
InsRespond ==
    /\ ins.pc = "dns"
    /\ ins.pending = {}
    /\ ins.hung = {}
    /\ \E senderDomain \in {senderDomainOf(ins.from)} :
         \E inp \in {[fromDomain |-> senderDomain,
                       linkDomains |-> ins.linkDomains,
                       auth |-> ins.auth,
                       text |-> ins.text \o <<" ">> \o ins.html,
                       dnsMissingCount |-> MissingCount(ins.dnsStatus)]} :
           \E scored \in {scoreVerdict(inp)} :
             ins' = [pc |-> "done", req |-> ins.req, status |-> 200,
                     kind |-> ins.kind, from |-> ins.from, auth |-> ins.auth,
                     links |-> ins.links,
                     linkDomains |-> [i \in 1..Len(ins.linkDomains) |->
                                        [domain |-> ins.linkDomains[i],
                                         dns |-> StatusOf(ins.dnsStatus,
                                                          ins.linkDomains[i])]],
                     verdict |-> scored.verdict,
                     reasons |-> Positives(scored.verdict, senderDomain,
                                           ins.linkDomains, ins.auth)
                                 \o scored.reasons,
                     tips |-> scored.tips,
                     points |-> scored.points,
                     senderDomain |-> senderDomain,
                     resolves |-> ins.resolves,
                     dnsMissingCount |-> inp.dnsMissingCount]
    /\ UNCHANGED <<verifyVars, sc, wt, rl>>

InitInspect ==
    /\ VRest
    /\ sc = Off
    /\ ins = [pc |-> "idle"]
    /\ wt = Off
    /\ rl = Off

NextInspect ==
    \/ InsReceive \/ InsBadRequest \/ InsServerError
    \/ InsDnsSettle \/ InsDnsHangs \/ InsRespond

SpecInspect == InitInspect /\ [][NextInspect]_vars

\* C3: every 200 response of the inspect handler carries a non-empty list
\* of reasons, whatever the sender domain, link domains, auth signals, text
\* and DNS-missing count; a safe verdict included.
C3_ReasonsNonEmpty ==
    (ins.pc = "done" /\ ins.status = 200) => ins.reasons # <<>>

(***************************************************************************)
(* SpecTimeout: one call of withTimeout as a race between the operation     *)
(* and the timer.  The operation may resolve, reject, or never settle; the  *)
(* timer callback runs no earlier than ms after the call.  Whichever        *)
(* settles first settles the returned promise; later settlements are        *)
(* ignored by Promise.race.                                                 *)
(***************************************************************************)
MaxMs == 2

\* withTimeout(p, ms, fallback) is called: the timer is armed
WtCall ==
    /\ wt.pc = "idle"
    /\ \E ms \in 1..MaxMs, fallback \in {Null, "fb"} :
         wt' = [pc |-> "race", ms |-> ms, fallback |-> fallback, clock |-> 0,
                op |-> [state |-> "pending"], timer |-> "armed",
                out |-> [state |-> "pending"], first |-> "none"]
    /\ UNCHANGED <<verifyVars, sc, ins, rl>>

\* time passes
WtTick ==
    /\ wt.pc = "race"
    /\ wt.clock < MaxMs + 1
    /\ wt' = [wt EXCEPT !.clock = @ + 1]
    /\ UNCHANGED <<verifyVars, sc, ins, rl>>

\* a race that lets every settlement through, the first one or not
WtSettle_LastWins(outcome, value) ==
    LET r == withTimeout(outcome, value, wt.fallback)
    IN  [state |-> IF r.rejected THEN "rejected" ELSE "resolved",
         value |-> r.value, at |-> wt.clock, by |-> outcome]

\* which of the two raced promises settled first
WtFirst(who) == IF wt.first = "none" THEN who ELSE wt.first

\* the settlement of the race, applied only if nothing settled it before
WtSettle(outcome, value) ==
    IF wt.out.state = "pending"
    THEN LET r == withTimeout(outcome, value, wt.fallback)
         IN  [state |-> IF r.rejected THEN "rejected" ELSE "resolved",
              value |-> r.value, at |-> wt.clock, by |-> outcome]
    ELSE wt.out

\* the operation resolves
WtOpResolves ==
    /\ wt.pc = "race"
    /\ wt.op.state = "pending"
    /\ \E v \in {"v1", "v2"} :
         wt' = [wt EXCEPT !.op = [state |-> "resolved", at |-> wt.clock],
                          !.out = WtSettle("ok", v),
                          !.first = WtFirst("operation")]
    /\ UNCHANGED <<verifyVars, sc, ins, rl>>

\* the operation rejects
WtOpRejects ==
    /\ wt.pc = "race"
    /\ wt.op.state = "pending"
    /\ wt' = [wt EXCEPT !.op = [state |-> "rejected", at |-> wt.clock],
                        !.out = WtSettle("error", Null),
                        !.first = WtFirst("operation")]
    /\ UNCHANGED <<verifyVars, sc, ins, rl>>

\* the timer callback runs and resolves the second promise with fallback
WtTimerFires ==
    /\ wt.pc = "race"
    /\ wt.timer = "armed"
    /\ wt.clock >= wt.ms
    /\ wt' = [wt EXCEPT !.timer = "fired", !.out = WtSettle("timeout", Null),
                        !.first = WtFirst("timer")]
    /\ UNCHANGED <<verifyVars, sc, ins, rl>>

InitTimeout ==
    /\ VRest
    /\ sc = Off
    /\ ins = Off
    /\ wt = [pc |-> "idle"]
    /\ rl = Off

NextTimeout == WtCall \/ WtTick \/ WtOpResolves \/ WtOpRejects \/ WtTimerFires

SpecTimeout == InitTimeout /\ [][NextTimeout]_vars

\* C10: the promise returned by withTimeout never rejects, whether the
\* operation resolves, rejects before the deadline, rejects after it or
\* never settles.
C10_NeverRejects == wt.pc = "race" => wt.out.state # "rejected"

\* C11: when the timer fires before the operation settles the caller gets
\* fallback, and whatever the operation does afterwards the returned
\* promise stays resolved with fallback: no rejection after the deadline.
C11_LateOutcomeDiscarded ==
    (wt.pc = "race" /\ wt.first = "timer")
        => /\ wt.out.state = "resolved"
           /\ wt.out.value = wt.fallback
           /\ wt.out.at >= wt.ms

\* the timer won, and the operation rejected at a later instant
C11_Witness ==
    /\ wt.pc = "race"
    /\ wt.first = "timer"
    /\ wt.op.state = "rejected"
    /\ wt.op.at > wt.out.at
    /\ wt.out.value = "fb"

\* C12: when the provider is not configured or its call failed, the
\* response is the local baseline: source local, mailbox.status unknown,
\* strict false, confidence 4/medium, the mailbox-not-confirmed note first;
\* after a provider failure the error message follows as a second note, and
\* without a configured provider there is no further note.
C12_FallbackIsLocalBaseline ==
    (resp.has /\ (~verifalia \/ resp.via = "fallback"))
        => /\ Body.source = "local"
           /\ Body.mailbox.status = "unknown"
           /\ ~Body.verdict.strict
           /\ Body.verdict.confidence.score = 4
           /\ Body.verdict.confidence.band = "medium"
           /\ Body.notes[1] = Notes.local
           /\ resp.via = "fallback"
                 => Body.notes = <<Notes.local,
                                   IF resp.err # "" THEN resp.err
                                   ELSE "verifier_error">>
           /\ ~verifalia => Body.notes = <<Notes.local>>

\* the provider call of a request for a resolvable domain timed out
C12_Witness ==
    /\ resp.has
    /\ resp.via = "fallback"
    /\ Body.hasMX
    /\ Body.notes = <<Notes.local, "Request timed out">>

\* C13: verdict.list is blacklist if the format is invalid or the domain is
\* blocklisted; otherwise whitelist only if the provider classified the
\* address deliverable; otherwise blacklist if it classified it
\* undeliverable; otherwise greylist.  A response without a provider
\* classification is never whitelist.
C13_ListPriority ==
    resp.has =>
        LET cls == IF Body.source = "verifalia"
                   THEN LowerStr(Body.mailbox.classification)
                   ELSE "none"
        IN  Body.verdict.list =
              (IF ~Body.formatOK \/ Body.dbl.listed THEN "blacklist"
               ELSE IF cls = "deliverable" THEN "whitelist"
               ELSE IF cls = "undeliverable" THEN "blacklist"
               ELSE "greylist")

\* C14: safeToSend = true implies a valid format, hasMX, no blocklist hit,
\* a mailbox status other than undeliverable and, when the provider is the
\* source, a classification of deliverable.
C14_SafeToSendRequires ==
    (resp.has /\ Body.verdict.safeToSend)
        => /\ Body.formatOK
           /\ Body.hasMX
           /\ ~Body.dbl.listed
           /\ Body.mailbox.status # "undeliverable"
           /\ Body.source = "verifalia"
                 => LowerStr(Body.mailbox.classification) = "deliverable"

\* C15: confidence is 9/high when safeToSend, 5/medium when the list is
\* greylist and 2/low otherwise; ageDays is the whole number of days from the
\* registration date to now when a date was obtained and 0 when not; the
\* score lies in 0..10 and the band matches the score.
C15_Confidence ==
    (resp.has /\ resp.via # "hit") =>
        LET c == Body.verdict.confidence
            created == Body.whois.created
            elapsed == resp.at - DateParse(created).ms
        IN  /\ c.score = (IF Body.verdict.safeToSend THEN 9
                          ELSE IF Body.verdict.list = "greylist" THEN 5 ELSE 2)
            /\ c.band = (IF Body.verdict.safeToSend THEN "high"
                         ELSE IF Body.verdict.list = "greylist" THEN "medium"
                         ELSE "low")
            /\ c.score \in 0..10
            /\ c.ageDays >= 0
            /\ created = Null => c.ageDays = 0
            /\ created # Null
                  => /\ c.ageDays * DAY_MS <= elapsed
                     /\ elapsed < (c.ageDays + 1) * DAY_MS

\* C16: for the malformed address "u@" (no domain) the response has
\* formatOK = false, domain = "", list = blacklist and source = local, with
\* or without a configured provider.
C16_MalformedIsLocalBlacklist ==
    (resp.has /\ Body.input = Raw.noDomain)
        => /\ ~Body.formatOK
           /\ Body.domain = <<>>
           /\ Body.verdict.list = "blacklist"
           /\ Body.source = "local"

\* C17: for sender ebay.com with links to ebay.co.uk and ebaystatic.com,
\* sameBrand(link, sender) is true for both links, no misalignment points
\* are added and, with no other signal, the verdict is safe.
C17_EbayExample ==
    (/\ sc.pc = "scored"
     /\ sc.inp.fromDomain = Dom.ebay_com
     /\ sc.inp.linkDomains = <<Dom.ebay_co_uk, Dom.ebaystatic_com>>
     /\ ~sc.out.spamHit /\ ~AuthFail(sc.inp.auth) /\ sc.inp.dnsMissingCount = 0)
        => /\ \A i \in 1..2 : sameBrand(sc.inp.linkDomains[i], sc.inp.fromDomain)
           /\ sc.out.misaligned = <<>>
           /\ sc.out.points = 0
           /\ sc.out.verdict = "safe"

\* C18: for sender paypa1.com with the single link paypal.com, dkim = fail,
\* no spam language and no DNS-missing link, scoreVerdict sets isClone,
\* accumulates exactly 6 points and returns clone.
C18_Paypa1Example ==
    (/\ sc.pc = "scored"
     /\ sc.inp.fromDomain = Dom.paypa1_com
     /\ sc.inp.linkDomains = <<Dom.paypal_com>>
     /\ sc.inp.auth.dkim = "fail"
     /\ ~sc.out.spamHit /\ sc.inp.dnsMissingCount = 0)
        => /\ levenshtein(Dom.paypal_com, Dom.paypa1_com) = 1
           /\ sc.out.isClone
           /\ sc.out.points = 6
           /\ sc.out.verdict = "clone"

\* C19: every external call is bounded by a timeout, so a request in
\* flight can always make a step towards its response, even when an
\* upstream never answers.
C19_InFlightCanProceed == ins.pc = "dns" => ENABLED NextInspect

\* C20: a 200 response reports the kind chosen by precedence: for an
\* uploaded file the extension (msg, html, eml) decides first, the detected
\* signature decides only for another extension, and sniffing comes last;
\* for a raw payload a body whose first non-blank character is "<" is html
\* with auth n/a and any other body is plain text.  A file named *.html is
\* html whatever its signature is.
C20_KindPrecedence ==
    LET req == ins.req
        leadingMarkup == StartsWith(Trim(req.payload.asText.chars), <<"<">>)
        sniffed == IF leadingMarkup THEN "html" ELSE "raw"
    IN  (ins.pc = "done" /\ ins.status = 200) =>
          /\ (req.src = "file" /\ req.ext \in {"msg", "html", "eml"})
                => ins.kind = req.ext
          /\ (req.src = "file" /\ req.ext = "txt")
                => ins.kind = (IF req.ft = "none" THEN sniffed ELSE req.ft)
          /\ req.src = "raw" => ins.kind = sniffed
          /\ (req.src = "raw" /\ leadingMarkup) => ins.auth = AuthNA

\* C21: when structured parsing throws, the request does not fail: an
\* uploaded file that is neither msg nor html, and a raw payload, are
\* downgraded to html (leading "<") or plain text and answered 200; only
\* a msg container that cannot be read is answered 400.
C21_ParseFailureDowngrades ==
    LET req == ins.req
        isMsg == req.src = "file" /\ (req.ext = "msg" \/ req.ft = "msg")
        isHtml == req.src = "file" /\ ~isMsg /\ (req.ext = "html" \/ req.ft = "html")
        sniffed == IF StartsWith(Trim(req.payload.asText.chars), <<"<">>)
                   THEN "html" ELSE "raw"
    IN  (ins.pc = "done" /\ req.src \in {"file", "raw"} /\ ~req.parseOk) =>
          IF isMsg THEN ins.status = 400
          ELSE /\ ins.status = 200
               /\ ~isHtml => ins.kind = sniffed

\* C22: in every 200 response of the inspect handler each of auth.spf,
\* auth.dkim and auth.dmarc is one of pass, fail, unknown or n/a, and the
\* kinds without a header envelope (msg, html) report n/a for all three.
C22_AuthValues ==
    (ins.pc = "done" /\ ins.status = 200) =>
        /\ \A tag \in {"spf", "dkim", "dmarc"} :
             ins.auth[tag] \in {"pass", "fail", "unknown", "n/a"}
        /\ ins.kind \in {"msg", "html"} => ins.auth = AuthNA

\* C23: once resolveMxSafe has settled, its result is the MX records in
\* ascending priority when the MX lookup answered non-empty in time, and
\* then no A lookup was issued; otherwise the A lookup was issued and the
\* result is the single entry (the domain, priority 0) when it answered
\* with an address, and the empty list when it did not.
C23_ResolveMxSafe ==
    LET mxAnswered == world.wx.mx = "ok" /\ world.prof.mx # <<>>
        aAnswered == world.wx.a = "ok" /\ world.prof.a
        Expected(mx) ==
            IF mxAnswered
            THEN /\ Len(mx) = Len(world.prof.mx)
                 /\ Range(mx) = Range(world.prof.mx)
                 /\ \A i, j \in 1..Len(mx) :
                      i < j => mx[i].priority <= mx[j].priority
                 /\ rq.calls.a = 0
            ELSE /\ rq.calls.a >= 1
                 /\ mx = IF aAnswered
                         THEN << [exchange |-> rq.domain, priority |-> 0] >>
                         ELSE <<>>
    IN  /\ (pc = "lookups" /\ rq.domain # <<>> /\ "mx" \notin rq.pending)
              => Expected(rq.mx)
        /\ (pc \in {"baseline", "fallback"} /\ rq.domain # <<>>
               /\ rq.bstep \in {"dbl", "rdap", "done"})
              => Expected(rq.bmx)

\* the MX lookup answered two records out of order and they were sorted
C23_Witness ==
    /\ pc = "lookups" /\ "mx" \notin rq.pending
    /\ world.wx.mx = "ok"
    /\ world.prof.mx = <<Mx[2], Mx[1]>>
    /\ rq.mx = <<Mx[1], Mx[2]>>
    /\ rq.calls.a = 0

C25_LookupsConcurrent ==
    /\ rq.calls.mx = rq.calls.dbl
    /\ rq.calls.dbl = rq.calls.rdap
    /\ (verifalia /\ pc = "lookups" /\ rq.domain # <<>>) => rq.calls.prov = 1

\* C26: after a verify request that found an expired entry for its key
\* has been answered, on any path, the cache holds no expired entry for
\* that key.
C26_ExpiredEvicted ==
    (resp.has /\ resp.stale) =>
        \/ resp.key \notin DOMAIN cache
        \/ resp.at - cache[resp.key].ts < TTL_MS

\* C27: a single verify request performs the MX/A resolution, the
\* blocklist check and the registration lookup at most once each, on
\* every path.
C27_LookupsAtMostOnce ==
    /\ \A k \in {"mx", "dbl", "rdap"} : rq.calls[k] <= 1
    /\ resp.has => \A k \in {"mx", "dbl", "rdap"} : resp.calls[k] <= 1

\* C28: whenever scoreVerdict sets isClone the verdict is clone: every
\* link domain within edit distance 2 of the sender's registrable domain
\* that is not sameBrand is also listed as misaligned, so the points are
\* at least 5.
C28_CloneVerdict ==
    (sc.pc \in {"scored", "rescored"} /\ sc.out.isClone) =>
        /\ \A i \in 1..Len(sc.inp.linkDomains) :
             Lookalike(sc.inp.linkDomains[i], sc.inp.fromDomain)
                => sc.inp.linkDomains[i] \in Range(sc.out.misaligned)
        /\ sc.out.points >= 5
        /\ sc.out.verdict = "clone"

\* C29: the concurrent existence lookups of one inspect request each
\* write their own key of dnsStatus: in every 200 response each
\* deduplicated link domain appears once with dns true exactly when its
\* lookup answered, so dnsMissingCount is the number of link domains whose
\* lookup failed, whatever the order in which the lookups completed.
C29_DnsStatusPerDomain ==
    (ins.pc = "done" /\ ins.status = 200) =>
        LET got == ins.linkDomains
            names == {got[i].domain : i \in 1..Len(got)}
        IN  /\ Cardinality(names) = Len(got)
            /\ \A i \in 1..Len(got) : got[i].dns = (got[i].domain \in ins.resolves)
            /\ ins.dnsMissingCount = Cardinality(names \ ins.resolves)

\* two link domains, one of which does not resolve, and the request was
\* answered all the same
C29_Witness ==
    /\ ins.pc = "done" /\ ins.status = 200
    /\ Len(ins.linkDomains) = 2
    /\ ins.linkDomains[1].dns /\ ~ins.linkDomains[2].dns
    /\ ins.dnsMissingCount = 1

(***************************************************************************)
(* The advice endpoint's rate limiter: one fixed window per client key.     *)
(***************************************************************************)
WINDOW_MS == 60000
LIMIT == 30

MaxHits == 33

\* the instants at which requests arrive: the start of a window, its last
\* instant, and the first instant after it
RatePoints == {0, WINDOW_MS, WINDOW_MS + 1}

\* the client key: the first x-forwarded-for entry, else the socket address
Ips == {"198.51.100.7"}

\* rateLimit(req) at time t: the bucket after the call, whether the window
\* was restarted, and the value returned
rateLimit(bucket, ip, t) ==
    LET w0 == IF ip \in DOMAIN bucket THEN bucket[ip] ELSE [count |-> 0, ts |-> t]
        reset == t - w0.ts > WINDOW_MS
        w1 == IF reset THEN [count |-> 0, ts |-> t] ELSE w0
        w2 == [w1 EXCEPT !.count = @ + 1]
    IN  [bucket |-> [k \in DOMAIN bucket \cup {ip} |->
                        IF k = ip THEN w2 ELSE bucket[k]],
         before |-> w0, reset |-> reset, ok |-> w2.count <= LIMIT]

\* time passes between two requests
RlTick ==
    /\ rl.pc = "on"
    /\ \E t \in RatePoints :
         /\ t > rl.now
         /\ rl' = [rl EXCEPT !.now = t]
    /\ UNCHANGED <<verifyVars, sc, ins, wt>>

\* a POST arrives: rateLimit runs, and the request is admitted or answered
\* 429; admitted counts the admitted requests per key and instant
RlRequest ==
    /\ rl.pc = "on"
    /\ rl.hits < MaxHits
    /\ \E ip \in Ips :
         \E r \in {rateLimit(rl.bucket, ip, rl.now)} :
           rl' = [rl EXCEPT
                    !.bucket = r.bucket,
                    !.hits = @ + 1,
                    !.admitted[ip][rl.now] = @ + (IF r.ok THEN 1 ELSE 0),
                    !.last = [has |-> TRUE, ip |-> ip, at |-> rl.now,
                              before |-> r.before, reset |-> r.reset,
                              after |-> r.bucket[ip],
                              status |-> IF r.ok THEN 200 ELSE 429]]
    /\ UNCHANGED <<verifyVars, sc, ins, wt>>

InitRate ==
    /\ VRest
    /\ sc = Off
    /\ ins = Off
    /\ wt = Off
    /\ rl = [pc |-> "on", now |-> 0, bucket |-> << >>, hits |-> 0,
             admitted |-> [ip \in Ips |-> [t \in RatePoints |-> 0]],
             last |-> [has |-> FALSE]]

NextRate == RlTick \/ RlRequest

SpecRate == InitRate /\ [][NextRate]_vars

\* C30: no interval of 60000 ms holds more than 30 admitted requests of
\* one client key; the counter restarts only when more than 60000 ms have
\* passed since the window start, and a rejected request still counts.
C30_AtMostLimitPerWindow ==
    /\ \A ip \in Ips, t \in RatePoints :
         LET inWindow == {u \in RatePoints : t <= u /\ u < t + WINDOW_MS}
             Adm(u) == IF u \in inWindow THEN rl.admitted[ip][u] ELSE 0
         IN  Adm(0) + Adm(WINDOW_MS) + Adm(WINDOW_MS + 1) <= LIMIT
    /\ rl.last.has =>
         /\ rl.last.reset <=> rl.last.at - rl.last.before.ts > WINDOW_MS
         /\ rl.last.after.count =
               (IF rl.last.reset THEN 0 ELSE rl.last.before.count) + 1
         /\ rl.last.status = 429 <=> rl.last.after.count > LIMIT

====
